---------------------------- MODULE Spec2Model ----------------------------
(***************************************************************************)
(* Green Time Schedule: settlement-period time model, window generation,   *)
(* window scoring and slot selection (app/utils/time_utils.py and          *)
(* app/services/schedule_service.py), the forecast cache                   *)
(* (app/services/cache_service.py) and the forecast provider client         *)
(* (app/services/carbon_service.py).                                        *)
(*                                                                         *)
(* Instants are whole minutes since 00:00 of civil day 0 (UTC).  A civil   *)
(* date ("%Y-%m-%d") is the day number of an instant.  The cache's clock,   *)
(* time.time(), counts whole seconds.                                       *)
(***************************************************************************)
EXTENDS Integers, Sequences, FiniteSets, TLC

VARIABLES
    clock,               \* datetime.utcnow(), in minutes
    ticks,               \* how often the clock has advanced
    call,                \* the last direct call of a time/scoring utility
    pc,                  \* position of the schedule_job request in flight
    request,             \* JobScheduleRequest: job_duration_minutes, deadline_utc
    arrival,             \* clock when the request entered schedule_job
    validate_now,        \* utcnow() read by _validate_request (line 133)
    now,                 \* utcnow() read by schedule_job (line 49)
    time_windows,        \* schedule_job's time_windows
    carbon_data,         \* schedule_job's carbon_data
    data_freshness,      \* CarbonForecast.data_freshness of the forecasts it came from
    window_intensities,  \* schedule_job's window_intensities, after the sort
    outcome,             \* "pending", "ok" or the name of the exception raised
    response,            \* the JobScheduleResponse returned
    time,                \* time.time(), in seconds
    time_ticks,          \* how often time has advanced
    _cache,              \* SimpleCache._cache: key -> (value, expiry)
    _lock,               \* SimpleCache._lock: the thread that holds it, or NoOwner
    threads,             \* per thread: the SimpleCache call it is in
    last_call,           \* the SimpleCache call that finished last
    cache_calls,         \* how many SimpleCache calls were started
    use_cache,           \* CarbonIntensityService.use_cache
    svc,                 \* the CarbonIntensityService or CacheService call in flight
    svc_calls,           \* how many such calls were started
    tasks                \* per task of the event loop: its get_intensity_for_date call

sched_vars == <<clock, ticks, call, pc, request, arrival, validate_now, now,
                time_windows, carbon_data, data_freshness, window_intensities,
                outcome, response>>

cache_vars == <<time, time_ticks, _cache, _lock, threads, last_call, cache_calls>>

svc_vars == <<use_cache, svc, svc_calls, tasks>>

vars == <<sched_vars, cache_vars, svc_vars>>

-----------------------------------------------------------------------------
(* Program constants *)

PeriodMinutes == 30
PeriodsPerDay == 48
MinutesPerHour == 60
MinutesPerDay == PeriodsPerDay * PeriodMinutes

MIN_JOB_DURATION_MINUTES == 30
MAX_JOB_DURATION_MINUTES == 1440
MAX_FORECAST_DAYS == 2
MAX_ALTERNATIVE_SLOTS == 3
DEFAULT_CACHED_DATA_AGE == 15
CACHE_TTL == 1800

(* Bounds of the model *)

MaxTicks == 2
MaxTimeTicks == 2
MaxCacheCalls == 3
MaxServiceCalls == 2

None == "None"
NoCall == [op |-> "none"]
NoResponse == [returned |-> FALSE]
Empty == [x \in {} |-> <<>>]      \* the empty dict

\* how a call ends: it returns a value or raises the named exception
Return(v) == [raised |-> "", value |-> v]
Raise(e) == [raised |-> e, value |-> <<>>]

-----------------------------------------------------------------------------
(* datetime accessors *)

DateOf(dt) == dt \div MinutesPerDay
HourOf(dt) == (dt % MinutesPerDay) \div MinutesPerHour
MinuteOf(dt) == dt % MinutesPerHour
StrpDate(date_str) == date_str * MinutesPerDay

InSeq(x, s) == \E i \in 1..Len(s) : s[i] = x

Min(S) == CHOOSE x \in S : \A y \in S : x <= y
Max(S) == CHOOSE x \in S : \A y \in S : x >= y

\* sum of f[i] for i in lo..hi
RECURSIVE SumOver(_, _, _)
SumOver(f, lo, hi) ==
    IF lo > hi THEN 0
    ELSE IF lo = hi THEN f[lo]
    ELSE LET mid == (lo + hi) \div 2
         IN  SumOver(f, lo, mid) + SumOver(f, mid + 1, hi)

\* list.sort(key=...): ascending key, elements of equal key keep their order
\* (unsorted_keys[i] is the key of s[i], pos[i] is where s[i] goes)
StableSort(s, unsorted_keys) ==
    LET n == Len(s)
        place(keys, i) == Cardinality({j \in 1..n : keys[j] < keys[i]})
                          + Cardinality({j \in 1..i : keys[j] = keys[i]})
        places(keys) == SubSeq([i \in 1..n |-> place(keys, i)], 1, n)
        sorted(pos) == SubSeq([k \in 1..n |-> s[CHOOSE i \in 1..n : pos[i] = k]], 1, n)
    IN  CHOOSE r \in
            { sorted(pos) :
                pos \in { places(keys) :
                            keys \in {SubSeq(unsorted_keys, 1, n)} } } : TRUE

-----------------------------------------------------------------------------
(* app/utils/time_utils.py *)

get_settlement_period(dt) ==
    LET minutes_since_midnight == HourOf(dt) * 60 + MinuteOf(dt)
    IN  (minutes_since_midnight \div 30) + 1

\* minutes_since_midnight = period * 30: the period after the one asked for
datetime_from_period_next(date_str, period) ==
    LET minutes_since_midnight == period * 30
        hours == minutes_since_midnight \div 60
        minutes == minutes_since_midnight % 60
        start_dt == StrpDate(date_str) + hours * MinutesPerHour + minutes
        end_dt == start_dt + 30
    IN  <<start_dt, end_dt>>

datetime_from_period(date_str, period) ==
    LET minutes_since_midnight == (period - 1) * 30
        hours == minutes_since_midnight \div 60
        minutes == minutes_since_midnight % 60
        start_dt == StrpDate(date_str) + hours * MinutesPerHour + minutes
        end_dt == start_dt + 30
    IN  <<start_dt, end_dt>>

\* [p for p in range(1, 49) if p not in result[date_str]]
MissingPeriods(have) ==
    LET absent(p) == ~InSeq(p, have)
    IN  SelectSeq([p \in 1..PeriodsPerDay |-> p], absent)

\* one pass of the while loop (lines 69-86) over its variables; the loop has
\* ended once its condition fails
DatePeriodsStep(start_dt, end_dt, loop) ==
    IF ~(loop.current_dt < end_dt) THEN loop
    ELSE
        LET current_dt == loop.current_dt
            result == loop.result
            date_str == DateOf(current_dt)
            period == get_settlement_period(current_dt)
            r1 == IF date_str \in DOMAIN result THEN result
                  ELSE result @@ (date_str :> <<>>)
            r2 == IF InSeq(period, r1[date_str]) THEN r1
                  ELSE [r1 EXCEPT ![date_str] = Append(@, period)]
            next_dt == current_dt + 30
            r3 == IF DateOf(next_dt) # DateOf(start_dt)
                     /\ Len(r2[date_str]) < 48
                  THEN [r2 EXCEPT ![date_str] = @ \o MissingPeriods(@)]
                  ELSE r2
        IN  [current_dt |-> next_dt, result |-> r3]

\* n passes of the loop, one after the other: the first half of them, then
\* the rest from where those ended
RECURSIVE DatePeriodsLoop(_, _, _, _)
DatePeriodsLoop(start_dt, end_dt, loop, n) ==
    IF n = 0 THEN loop
    ELSE IF n = 1 THEN DatePeriodsStep(start_dt, end_dt, loop)
    ELSE CHOOSE done \in
            { DatePeriodsLoop(start_dt, end_dt, half, n - n \div 2) :
                half \in {DatePeriodsLoop(start_dt, end_dt, loop, n \div 2)} } : TRUE

get_date_periods_between(start_dt, end_dt) ==
    IF start_dt >= end_dt THEN Empty
    ELSE DatePeriodsLoop(start_dt, end_dt,
                         [current_dt |-> start_dt, result |-> Empty],
                         (end_dt - start_dt) \div 30 + 1).result

\* rounds to the nearest multiple of 30 instead of up
RoundWindowMinutes_nearest(window_minutes) ==
    LET floored == IF window_minutes < 30 THEN 30 ELSE window_minutes
    IN  ((floored + 15) \div 30) * 30

RoundWindowMinutes(window_minutes) ==
    LET floored == IF window_minutes < 30 THEN 30 ELSE window_minutes
    IN  ((floored + 29) \div 30) * 30

\* one pass of the while loop (lines 119-121) over its variables
WindowsStep(window_delta, end_dt, loop) ==
    IF ~(loop.current_start + window_delta <= end_dt) THEN loop
    ELSE [current_start |-> loop.current_start + 30,
          windows |-> Append(loop.windows,
                             <<loop.current_start,
                               loop.current_start + window_delta>>)]

\* n passes of the loop, one after the other
RECURSIVE WindowsLoop(_, _, _, _)
WindowsLoop(window_delta, end_dt, loop, n) ==
    IF n = 0 THEN loop
    ELSE IF n = 1 THEN WindowsStep(window_delta, end_dt, loop)
    ELSE CHOOSE done \in
            { WindowsLoop(window_delta, end_dt, half, n - n \div 2) :
                half \in {WindowsLoop(window_delta, end_dt, loop, n \div 2)} } : TRUE

\* loops while current_start + window_delta < end_dt: the window that ends
\* on end_dt is left out
generate_time_windows_strict(start_dt, end_dt, window_minutes) ==
    LET floored == IF window_minutes < 30 THEN 30 ELSE window_minutes
        window_delta == ((floored + 29) \div 30) * 30
    IN  IF start_dt + window_delta > end_dt THEN <<>>
        ELSE WindowsLoop(window_delta, end_dt - 1,
                         [current_start |-> start_dt, windows |-> <<>>],
                         (end_dt - start_dt) \div 30 + 1).windows

generate_time_windows(start_dt, end_dt, window_minutes) ==
    LET window_delta == RoundWindowMinutes(window_minutes)
    IN  IF start_dt + window_delta > end_dt THEN <<>>
        ELSE WindowsLoop(window_delta, end_dt,
                         [current_start |-> start_dt, windows |-> <<>>],
                         (end_dt - start_dt) \div 30 + 1).windows

-----------------------------------------------------------------------------
(* app/services/carbon_service.py: what the forecast provider can answer for *)
(* one date, and the forecasts built from it                                 *)

\* a CarbonIntensityPeriod, as far as the scheduler reads it
Rec(p, i) == [period |-> p, intensity |-> i]

\* one entry of the provider's data list: "from" is the instant the entry
\* starts at, "intensity" its forecast
PeriodData(from, forecast) ==
    [from |-> from, to |-> from + 30, intensity |-> forecast,
     actual |-> forecast - 5,
     index |-> IF forecast <= 150 THEN "low" ELSE "moderate"]

\* the instant period p of day 0 starts at
PeriodStart(p) == datetime_from_period(0, p)[1]

\* a full day, intensity falling until period 30 and rising after it at the
\* same rate
VaryDay == [p \in 1..PeriodsPerDay |->
              PeriodData(PeriodStart(p),
                         IF p <= 30 THEN 400 - 10 * p ELSE 10 * p - 200)]
\* a few periods only, delivered out of order, period 2 delivered twice
SparseDay == << PeriodData(PeriodStart(29), 120), PeriodData(PeriodStart(30), 110),
                PeriodData(PeriodStart(1), 200), PeriodData(PeriodStart(2), 180),
                PeriodData(PeriodStart(31), 100), PeriodData(PeriodStart(32), 105),
                PeriodData(PeriodStart(2), 90) >>

\* the provider answers 200 with a data list, answers another status, or
\* does not answer in time
ProviderPayloads == {VaryDay, SparseDay, <<>>}
ProviderResponses ==
    {[kind |-> "ok", data |-> d] : d \in ProviderPayloads}
    \cup {[kind |-> "timeout", data |-> <<>>], [kind |-> "status_500", data |-> <<>>]}

\* periods.sort(key=lambda p: p.period)
SortByPeriod(periods) ==
    StableSort(periods, [i \in 1..Len(periods) |-> periods[i].period])

\* periods.append(CarbonIntensityPeriod(period=get_settlement_period(start_time), ...))
\* for every entry of the data list, in the order delivered
ProcessPeriods(data) ==
    SubSeq([i \in 1..Len(data) |->
               Rec(get_settlement_period(data[i].from), data[i].intensity)],
           1, Len(data))

\* the provider path of get_intensity_for_date: an exception name, or the
\* forecast_periods of the CarbonForecast
\* an answer without data is an empty forecast
get_intensity_for_date_lenient(resp) ==
    IF resp.kind \in {"timeout", "connect_error"}
    THEN Raise("CarbonAPIUnavailableError")
    ELSE IF resp.kind # "ok" THEN Return(<<>>)
    ELSE Return(SortByPeriod(ProcessPeriods(resp.data)))

get_intensity_for_date(resp) ==
    IF resp.kind \in {"timeout", "connect_error"}
    THEN Raise("CarbonAPIUnavailableError")
    ELSE IF resp.kind # "ok" THEN Raise("CarbonAPIResponseError")
    ELSE IF Len(resp.data) = 0 THEN Raise("CarbonAPIResponseError")
    ELSE Return(SortByPeriod(ProcessPeriods(resp.data)))

\* the forecast_periods get_intensity_for_date builds from a data list
ForecastPeriods(data) == SortByPeriod(ProcessPeriods(data))

\* the range is not cut at MAX_FORECAST_DAYS
RangeDates_uncapped(start_date, end_date) ==
    LET s == IF start_date > end_date THEN end_date ELSE start_date
        e == IF start_date > end_date THEN start_date ELSE end_date
    IN  s..e

\* the dates get_intensity_for_date_range asks for
RangeDates(start_date, end_date) ==
    LET s == IF start_date > end_date THEN end_date ELSE start_date
        e == IF start_date > end_date THEN start_date ELSE end_date
        capped == IF e - s > MAX_FORECAST_DAYS THEN s + MAX_FORECAST_DAYS ELSE e
    IN  s..capped

\* get_intensity_for_date_range with the provider answering resp[d] for date d:
\* the first failing date, in ascending order, aborts the whole range
get_intensity_for_date_range(start_date, end_date, resp) ==
    LET dates == RangeDates(start_date, end_date)
        got == [d \in dates |-> get_intensity_for_date(resp[d])]
        failed == {d \in dates : got[d].raised # ""}
    IN  IF failed # {}
        THEN got[CHOOSE d \in failed : \A x \in failed : d <= x]
        ELSE Return([d \in dates |-> got[d].value])

-----------------------------------------------------------------------------
(* app/services/schedule_service.py *)

\* date -> list of {period, intensity}, unless the provider failed
_get_carbon_data_for_windows(windows, resp) ==
    LET start_date == DateOf(Min({windows[i][1] : i \in 1..Len(windows)}))
        end_date == DateOf(Max({windows[i][2] : i \in 1..Len(windows)}))
    IN  get_intensity_for_date_range(start_date, end_date, resp)

\* period_map = {p["period"]: p for p in date_carbon_data}: the last record of
\* a period wins
PeriodMap(date_carbon_data) ==
    LET n == Len(date_carbon_data)
        keys == {date_carbon_data[i].period : i \in 1..n}
        last(p) == Max({i \in 1..n : date_carbon_data[i].period = p})
    IN  [p \in keys |-> date_carbon_data[last(p)].intensity]

\* <<total_intensity, period_count>> over one date's periods
SumPeriods(periods, period_map) ==
    LET hit == [i \in 1..Len(periods) |->
                   IF periods[i] \in DOMAIN period_map THEN 1 ELSE 0]
        val == [i \in 1..Len(periods) |->
                   IF periods[i] \in DOMAIN period_map
                   THEN period_map[periods[i]] ELSE 0]
    IN  <<SumOver(val, 1, Len(periods)), SumOver(hit, 1, Len(periods))>>

RECURSIVE SumDates(_, _, _)
SumDates(dates, date_periods, data) ==
    IF dates = {} THEN <<0, 0>>
    ELSE LET date_str == Min(dates)
             rest == SumDates(dates \ {date_str}, date_periods, data)
         IN  IF date_str \notin DOMAIN data THEN rest
             ELSE LET here == SumPeriods(date_periods[date_str],
                                         PeriodMap(data[date_str]))
                  IN  <<rest[1] + here[1], rest[2] + here[2]>>

_calculate_window_intensity(start_time, end_time, data) ==
    LET date_periods == get_date_periods_between(start_time, end_time)
        sums == SumDates(DOMAIN date_periods, date_periods, data)
        total_intensity == sums[1]
        period_count == sums[2]
    IN  IF period_count = 0 THEN Raise("NoViableTimeSlotError")
        ELSE Return(total_intensity \div period_count)

\* the upper bounds are exclusive
_get_carbon_index_exclusive(intensity) ==
    IF intensity < 100 THEN "very low"
    ELSE IF intensity < 150 THEN "low"
    ELSE IF intensity < 250 THEN "moderate"
    ELSE IF intensity < 350 THEN "high"
    ELSE "very high"

_get_carbon_index(intensity) ==
    IF intensity <= 100 THEN "very low"
    ELSE IF intensity <= 150 THEN "low"
    ELSE IF intensity <= 250 THEN "moderate"
    ELSE IF intensity <= 350 THEN "high"
    ELSE "very high"

\* the thresholds are exclusive
_get_forecast_confidence_exclusive(start_time, utcnow) ==
    LET minutes_in_future == start_time - utcnow
    IN  IF minutes_in_future < 12 * MinutesPerHour THEN "high"
        ELSE IF minutes_in_future < 24 * MinutesPerHour THEN "medium"
        ELSE "low"

\* hours_in_future <= 12 in whole minutes
_get_forecast_confidence(start_time, utcnow) ==
    LET minutes_in_future == start_time - utcnow
    IN  IF minutes_in_future <= 12 * MinutesPerHour THEN "high"
        ELSE IF minutes_in_future <= 24 * MinutesPerHour THEN "medium"
        ELSE "low"

_calculate_cached_data_age(data) == DEFAULT_CACHED_DATA_AGE

\* a sort that puts windows of equal intensity in descending start order
SortByIntensity_unstable(ws) ==
    LET n == Len(ws)
    IN  StableSort([i \in 1..n |-> ws[n + 1 - i]],
                   [i \in 1..n |-> ws[n + 1 - i][3]])

\* window_intensities.sort(key=lambda x: x[2])
SortByIntensity(ws) ==
    StableSort(ws, [i \in 1..Len(ws) |-> ws[i][3]])

\* window_intensities[0:settings.MAX_ALTERNATIVE_SLOTS]
AlternativeWindows_from_first(ws) ==
    SubSeq(ws, 1, IF Len(ws) < MAX_ALTERNATIVE_SLOTS THEN Len(ws)
                  ELSE MAX_ALTERNATIVE_SLOTS)

\* window_intensities[1:settings.MAX_ALTERNATIVE_SLOTS+1]
AlternativeWindows(ws) ==
    SubSeq(ws, 2, IF Len(ws) < MAX_ALTERNATIVE_SLOTS + 1 THEN Len(ws)
                  ELSE MAX_ALTERNATIVE_SLOTS + 1)

TimeSlot(w) == [start_time |-> w[1], end_time |-> w[2], carbon_intensity |-> w[3],
                carbon_index |-> _get_carbon_index(w[3])]

RECURSIVE SumLens(_, _)
SumLens(dates, data) ==
    IF dates = {} THEN 0
    ELSE LET d == Min(dates) IN Len(data[d]) + SumLens(dates \ {d}, data)

\* the upper limit of the duration is not checked
_validate_request_no_max(req, utcnow) ==
    IF req.job_duration_minutes < MIN_JOB_DURATION_MINUTES
    THEN Raise("InvalidScheduleRequestError")
    ELSE IF req.deadline_utc <= utcnow
    THEN Raise("InvalidScheduleRequestError")
    ELSE Return(None)

_validate_request(req, utcnow) ==
    IF req.job_duration_minutes < MIN_JOB_DURATION_MINUTES
    THEN Raise("InvalidScheduleRequestError")
    ELSE IF req.job_duration_minutes > MAX_JOB_DURATION_MINUTES
    THEN Raise("InvalidScheduleRequestError")
    ELSE IF req.deadline_utc <= utcnow
    THEN Raise("InvalidScheduleRequestError")
    ELSE Return(None)

\* schedule_job, lines 53-67: the fit check, then the windows
TimeWindowsFor(req, utcnow) ==
    IF utcnow + req.job_duration_minutes > req.deadline_utc
    THEN Raise("InvalidScheduleRequestError")
    ELSE LET windows == generate_time_windows(utcnow, req.deadline_utc,
                                              req.job_duration_minutes)
         IN  IF windows = <<>> THEN Raise("NoViableTimeSlotError")
             ELSE Return(windows)

\* schedule_job, lines 72-76: one score per generated window, in order
ScoreWindows(windows, data) ==
    [i \in 1..Len(windows) |->
        _calculate_window_intensity(windows[i][1], windows[i][2], data)]

\* schedule_job, lines 78-79: the scored windows, sorted
RankWindows(windows, scores) ==
    SortByIntensity([i \in 1..Len(windows) |->
                        <<windows[i][1], windows[i][2], scores[i].value>>])

\* schedule_job, lines 81-109
JobScheduleResponse(ranked, data, utcnow) ==
    LET optimal_window == ranked[1]
        alternative_windows == AlternativeWindows(ranked)
    IN  [returned |-> TRUE,
         optimal_start_time |-> optimal_window[1],
         optimal_end_time |-> optimal_window[2],
         carbon_intensity |-> optimal_window[3],
         carbon_index |-> _get_carbon_index(optimal_window[3]),
         alternative_slots |->
            [i \in 1..Len(alternative_windows) |-> TimeSlot(alternative_windows[i])],
         scheduling_metadata |->
            [periods_analyzed |-> SumLens(DOMAIN data, data),
             forecast_confidence |->
                _get_forecast_confidence(optimal_window[1], utcnow),
             cached_data_age_minutes |-> _calculate_cached_data_age(data)]]

-----------------------------------------------------------------------------
(* Inputs *)

(* app/services/cache_service.py: SimpleCache *)

\* Optional[...]: None is <<>>, a value v is <<v>>
Absent == <<>>
Some(v) == <<v>>

\* "carbon_forecast:{date}:{periods_str}", periods_str the sorted periods
\* joined by "-", or "carbon_forecast:{date}:all" without periods
get_carbon_forecast_key(date, periods) ==
    [date |-> date, periods |-> StableSort(periods, periods)]

\* what a method decides under the lock from the store it sees: the value it
\* returns, the keys it deletes (del self._cache[key]), whether it clears the
\* store, and the entries it assigns
Plan(ret, dels, clear, puts) ==
    [ret |-> ret, dels |-> dels, clear |-> clear, puts |-> puts]

NoPlan == Plan(Return(Absent), {}, FALSE, Empty)

\* expiry is not None and expiry < now
\* an entry is expired from its expiry instant on
Expired_from_instant(entry, at) == entry.expiry # Absent /\ entry.expiry[1] <= at

Expired(entry, at) == entry.expiry # Absent /\ entry.expiry[1] < at

\* an expired entry is reported absent but stays in the store
SimpleCache_get_keeps_expired(cache, key, at) ==
    IF key \notin DOMAIN cache THEN Plan(Return(Absent), {}, FALSE, Empty)
    ELSE IF Expired(cache[key], at) THEN Plan(Return(Absent), {}, FALSE, Empty)
    ELSE Plan(Return(Some(cache[key].value)), {}, FALSE, Empty)

\* SimpleCache.get, lines 35-46
SimpleCache_get(cache, key, at) ==
    IF key \notin DOMAIN cache THEN Plan(Return(Absent), {}, FALSE, Empty)
    ELSE IF Expired(cache[key], at) THEN Plan(Return(Absent), {key}, FALSE, Empty)
    ELSE Plan(Return(Some(cache[key].value)), {}, FALSE, Empty)

\* expiry = ttl_seconds, the current time is not added
SimpleCache_set_without_now(key, value, ttl_seconds, at) ==
    Plan(Return(TRUE), {}, FALSE, key :> [value |-> value, expiry |-> ttl_seconds])

\* SimpleCache.set, lines 61-66
SimpleCache_set(key, value, ttl_seconds, at) ==
    LET expiry == IF ttl_seconds # Absent THEN Some(at + ttl_seconds[1]) ELSE Absent
    IN  Plan(Return(TRUE), {}, FALSE, key :> [value |-> value, expiry |-> expiry])

\* SimpleCache.delete, lines 79-82
SimpleCache_delete(cache, key) ==
    IF key \in DOMAIN cache THEN Plan(Return(TRUE), {key}, FALSE, Empty)
    ELSE Plan(Return(FALSE), {}, FALSE, Empty)

\* expiry <= now: entries that expire at this very instant are cleared too
SimpleCache_clear_expired_inclusive(cache, at) ==
    LET expired_keys == {key \in DOMAIN cache :
                            /\ cache[key].expiry # Absent
                            /\ cache[key].expiry[1] <= at}
    IN  Plan(Return(Cardinality(expired_keys)), expired_keys, FALSE, Empty)

\* SimpleCache.clear_expired, lines 91-100
SimpleCache_clear_expired(cache, at) ==
    LET expired_keys == {key \in DOMAIN cache : Expired(cache[key], at)}
    IN  Plan(Return(Cardinality(expired_keys)), expired_keys, FALSE, Empty)

\* SimpleCache.clear_all, lines 110-112
SimpleCache_clear_all(cache) ==
    Plan(Return(Cardinality(DOMAIN cache)), {}, TRUE, Empty)

\* the plan carried out on the store as it is now; del of a key that is not
\* stored raises KeyError
ApplyPlan(cache, plan) ==
    IF plan.clear THEN [cache |-> Empty, ret |-> plan.ret]
    ELSE IF ~(plan.dels \subseteq DOMAIN cache)
    THEN [cache |-> [k \in DOMAIN cache \ plan.dels |-> cache[k]],
          ret |-> Raise("KeyError")]
    ELSE [cache |-> plan.puts @@ [k \in DOMAIN cache \ plan.dels |-> cache[k]],
          ret |-> plan.ret]

\* the plan of the call a thread is in
PlanFor(th, cache, at) ==
    CASE th.op = "get" -> SimpleCache_get(cache, th.key, at)
      [] th.op = "set" -> SimpleCache_set(th.key, th.value, th.ttl_seconds, at)
      [] th.op = "delete" -> SimpleCache_delete(cache, th.key)
      [] th.op = "clear_expired" -> SimpleCache_clear_expired(cache, at)
      [] th.op = "clear_all" -> SimpleCache_clear_all(cache)

Threads == {1, 2}
NoOwner == 0

\* the keys, values and lifetimes the callers use
CacheKeys == {get_carbon_forecast_key(0, <<>>), get_carbon_forecast_key(0, <<29>>)}
CacheTtls == {Absent, Some(1)}
TimeSteps == {1}

\* the value a thread stores
ValueOf(t) == IF t = 1 THEN "v1" ELSE "v2"

CacheCall(op, key, value, ttl_seconds) ==
    [pc |-> "acquire", op |-> op, key |-> key, value |-> value,
     ttl_seconds |-> ttl_seconds, at |-> Absent, seen |-> Empty,
     plan |-> NoPlan, ret |-> Return(Absent)]

IdleThread ==
    [CacheCall("none", get_carbon_forecast_key(0, <<>>), "", Absent)
        EXCEPT !.pc = "idle"]

\* the calls thread t can make
CacheCalls(t) ==
    {CacheCall("get", k, "", Absent) : k \in CacheKeys}
    \cup {c \in {CacheCall("set", k, ValueOf(t), ttl) :
                     k \in CacheKeys, ttl \in CacheTtls} :
             c.ttl_seconds # Absent \/ c.key = get_carbon_forecast_key(0, <<>>)}
    \cup {CacheCall("delete", get_carbon_forecast_key(0, <<29>>), "", Absent)}
    \cup {CacheCall(op, get_carbon_forecast_key(0, <<>>), "", Absent) :
             op \in {"clear_expired", "clear_all"}}

-----------------------------------------------------------------------------
(* app/services/cache_service.py: CacheService, and its use by               *)
(* app/services/carbon_service.py                                            *)

\* a call on the store: the store it leaves and what it returns or raises
Outcome(cache, ret) == [cache |-> cache, ret |-> ret]

\* self._cache.get(key) / self._cache.set(...): fault says that the store
\* raises instead of doing its work
StoreGet(cache, key, at, fault) ==
    IF fault THEN Outcome(cache, Raise("Exception"))
    ELSE ApplyPlan(cache, SimpleCache_get(cache, key, at))

StoreSet(cache, key, value, ttl_seconds, at, fault) ==
    IF fault THEN Outcome(cache, Raise("Exception"))
    ELSE ApplyPlan(cache, SimpleCache_set(key, value, ttl_seconds, at))

\* the store's exception is let through
CacheService_get_unguarded(cache, key, at, fault) ==
    StoreGet(cache, key, at, fault)

\* CacheService.get, lines 133-137
CacheService_get(cache, key, at, fault) ==
    LET got == StoreGet(cache, key, at, fault)
    IN  IF got.ret.raised # "" THEN Outcome(got.cache, Return(Absent)) ELSE got

\* the ttl is handed to the store as given, None included
CacheService_set_no_default(cache, key, value, ttl_seconds, at, fault) ==
    LET done == StoreSet(cache, key, value, ttl_seconds, at, fault)
    IN  IF done.ret.raised # "" THEN Outcome(done.cache, Return(FALSE)) ELSE done

\* an entry that is there is not overwritten
CacheService_set_if_absent(cache, key, value, ttl_seconds, at, fault) ==
    LET ttl == IF ttl_seconds = Absent THEN Some(CACHE_TTL) ELSE ttl_seconds
        done == StoreSet(cache, key, value, ttl, at, fault)
    IN  IF key \in DOMAIN cache THEN Outcome(cache, Return(TRUE))
        ELSE IF done.ret.raised # "" THEN Outcome(done.cache, Return(FALSE))
        ELSE done

\* CacheService.set, lines 151-158
CacheService_set(cache, key, value, ttl_seconds, at, fault) ==
    LET ttl == IF ttl_seconds = Absent THEN Some(CACHE_TTL) ELSE ttl_seconds
        done == StoreSet(cache, key, value, ttl, at, fault)
    IN  IF done.ret.raised # "" THEN Outcome(done.cache, Return(FALSE)) ELSE done

\* the cache is asked whatever use_cache says
get_cache_always(use, cache, key, at, fault) ==
    [consulted |-> TRUE, got |-> CacheService_get(cache, key, at, fault)]

\* CarbonIntensityService.get_cache, lines 42-45; consulted says whether the
\* cache was asked
get_cache(use, cache, key, at, fault) ==
    IF use
    THEN [consulted |-> TRUE, got |-> CacheService_get(cache, key, at, fault)]
    ELSE [consulted |-> FALSE, got |-> Outcome(cache, Return(Absent))]

\* CarbonIntensityPeriod
CarbonIntensityPeriod(period, start_time, end_time, forecast, actual, index) ==
    [period |-> period, start_time |-> start_time, end_time |-> end_time,
     intensity_forecast |-> forecast, intensity_actual |-> actual,
     intensity_index |-> index]

\* CarbonForecast
CarbonForecast(date, periods, freshness) ==
    [date |-> date, forecast_periods |-> periods, data_freshness |-> freshness]

\* get_intensity_for_period, lines 67-77: the answer built from a cache hit
PeriodFromCache(date_str, period, cached_data) ==
    LET bounds == datetime_from_period(date_str, period)
    IN  CarbonIntensityPeriod(period, bounds[1], bounds[2], cached_data.forecast,
                              cached_data.actual, cached_data.index)

\* get_intensity_for_period, lines 88-135, for the provider's answer resp:
\* the exception raised, or the value to cache and the value to return
PeriodFromProvider(period, resp) ==
    IF resp.kind \in {"timeout", "connect_error"}
    THEN Raise("CarbonAPIUnavailableError")
    ELSE IF resp.kind # "ok" THEN Raise("CarbonAPIResponseError")
    ELSE IF Len(resp.data) = 0 THEN Raise("CarbonAPIResponseError")
    ELSE LET period_data == resp.data[1]
         IN  Return([to_cache |-> [forecast |-> period_data.intensity,
                                   actual |-> period_data.actual,
                                   index |-> period_data.index],
                     to_return |-> CarbonIntensityPeriod(
                                      period, period_data.from, period_data.to,
                                      period_data.intensity, period_data.actual,
                                      period_data.index)])

\* the freshness returned is not the one that was cached
DateFromCache_restamped(date_str, cached_data) ==
    CarbonForecast(date_str, cached_data.periods, cached_data.freshness + 1)

\* get_intensity_for_date, lines 164-173: the answer built from a cache hit
DateFromCache(date_str, cached_data) ==
    CarbonForecast(date_str, cached_data.periods, cached_data.freshness)

\* get_intensity_for_date, lines 184-250, for the provider's answer resp
DateFromProvider(date_str, resp, at) ==
    LET periods == get_intensity_for_date(resp)
    IN  IF periods.raised # "" THEN periods
        ELSE Return([to_cache |-> [periods |-> periods.value, freshness |-> at],
                     to_return |-> CarbonForecast(date_str, periods.value, at)])

\* what the service did during a call, in order
Event(ev, key, fault) == [ev |-> ev, key |-> key, fault |-> fault]

\* a call of the service: op is the method, date_str and period its
\* arguments (date_str the date being fetched, for a range), first and last
\* the dates a range call goes through, cached_data what the last lookup
\* found, response what the provider answered for each date, seen the store
\* as the call found it at its last lookup
ServiceCall(op, date_str, period, first, last) ==
    [pc |-> "lookup", op |-> op, date_str |-> date_str, period |-> period,
     first |-> first, last |-> last,
     cache_key |-> get_carbon_forecast_key(
                      date_str, IF op = "get_intensity_for_period"
                                THEN <<period>> ELSE <<>>),
     value |-> Absent, ttl_seconds |-> Absent, at |-> Absent, seen |-> Empty,
     cached_data |-> Absent, response |-> Empty,
     events |-> <<>>, result |-> Empty, ret |-> Return(Absent)]

IdleService == [ServiceCall("none", 0, 0, 0, 0) EXCEPT !.pc = "idle"]

\* what callers ask of the service
ServiceDates == {0}
ServicePeriods == {29}
ServiceRanges == {<<0, 1>>, <<0, 3>>}

\* what the provider answers to the service: 200 with a data list (empty or
\* not), no answer in time, no connection, another status, a body that
\* carries "error", a body without a data list
ServiceResponses ==
    {[kind |-> "ok", data |-> SparseDay], [kind |-> "ok", data |-> <<>>]}
    \cup {[kind |-> k, data |-> <<>>] :
             k \in {"timeout", "connect_error", "status_500", "error_payload",
                    "missing_data"}}

\* how long callers wait between calls
LongSteps == {CACHE_TTL}

\* the tasks of the event loop that ask for a forecast at the same time, the
\* date they ask for and what the provider answers them
Tasks == {1, 2}
RaceDates == {0}
RaceResponses ==
    {[kind |-> "ok", data |-> SparseDay], [kind |-> "ok", data |-> VaryDay],
     [kind |-> "timeout", data |-> <<>>]}

\* what callers store through CacheService directly
DirectKey == get_carbon_forecast_key(0, <<29>>)
DirectValue == [forecast |-> 120, actual |-> 115, index |-> "low"]
DirectTtls == {Absent, Some(1)}

-----------------------------------------------------------------------------
(* Inputs of the scheduler *)

At(day, hour, minute) == StrpDate(day) + hour * MinutesPerHour + minute

\* when the service is started
InitClocks == {At(0, 14, 7), At(0, 23, 0)}
TickSteps == {15}

\* requests: <<job_duration_minutes, deadline_utc - arrival>>
Requests ==
    { <<20, 60>>, <<1500, 1560>>, <<30, -60>>, <<30, 0>>, <<30, 15>>,
      <<30, 30>>, <<30, 45>>, <<45, 50>>, <<45, 60>>, <<60, 60>>, <<60, 90>>,
      <<90, 120>>, <<30, 150>>, <<60, 150>>, <<1440, 1470>> }

\* direct calls of the utilities
UtilStarts == {At(0, 10, 0), At(0, 10, 15), At(0, 14, 0), At(0, 23, 0),
               At(0, 23, 30), At(1, 0, 0)}
UtilLengths == {-30, 0, 15, 30, 45, 60, 90, 120, 1440}
UtilWindowMinutes == {0, 20, 30, 45, 60, 61, 90}
UtilInstants ==
    {At(d, h, m) : d \in {0, 1}, h \in {0, 1, 13, 23},
                   m \in {0, 1, 14, 15, 29, 30, 31, 45, 59}}
UtilIntensities ==
    {0, 1, 99, 100, 101, 149, 150, 151, 249, 250, 251, 349, 350, 351, 352, 1000}
UtilMinutesAhead == {-30, 0, 1, 719, 720, 721, 1439, 1440, 1441, 2000}
UtilDates == {0, 1}
UtilCarbonData ==
    { Empty,
      (0 :> ForecastPeriods(SparseDay)),
      (0 :> ForecastPeriods(VaryDay)),
      (1 :> ForecastPeriods(VaryDay)),
      (0 :> ForecastPeriods(VaryDay)) @@ (1 :> ForecastPeriods(SparseDay)) }

-----------------------------------------------------------------------------
(* State machine *)

\* no request in flight
ScheduleIdle ==
    /\ ticks = 0
    /\ call = NoCall
    /\ pc = "idle"
    /\ request = None
    /\ arrival = <<>>
    /\ validate_now = <<>>
    /\ now = <<>>
    /\ time_windows = <<>>
    /\ carbon_data = Empty
    /\ data_freshness = <<>>
    /\ window_intensities = <<>>
    /\ outcome = "pending"
    /\ response = NoResponse

\* a new SimpleCache, no call in flight
CacheIdle ==
    /\ time = 0
    /\ time_ticks = 0
    /\ _cache = Empty
    /\ _lock = NoOwner
    /\ threads = [t \in Threads |-> IdleThread]
    /\ last_call = NoCall
    /\ cache_calls = 0

\* no call of the forecast provider client in flight
ServiceIdle ==
    /\ svc = IdleService
    /\ svc_calls = 0
    /\ tasks = [t \in Tasks |-> IdleService]

Init ==
    /\ clock \in InitClocks
    /\ ScheduleIdle
    /\ CacheIdle
    /\ use_cache = TRUE
    /\ ServiceIdle

job_vars == <<pc, request, arrival, validate_now, now, time_windows, carbon_data,
              data_freshness, window_intensities, outcome, response>>

\* time passes
Tick ==
    /\ ticks < MaxTicks
    /\ \E step \in TickSteps : clock' = clock + step
    /\ ticks' = ticks + 1
    /\ UNCHANGED <<call, job_vars>>
    /\ UNCHANGED <<cache_vars, svc_vars>>

CallGetDatePeriodsBetween ==
    /\ pc = "idle"
    /\ call = NoCall
    /\ \E s \in UtilStarts, len \in UtilLengths :
          call' = [op |-> "get_date_periods_between",
                   start_dt |-> s, end_dt |-> s + len,
                   ret |-> get_date_periods_between(s, s + len)]
    /\ UNCHANGED <<clock, ticks, job_vars>>
    /\ UNCHANGED <<cache_vars, svc_vars>>

\* get_date_periods_between on the bounds datetime_from_period gives
CallPeriodBounds ==
    /\ pc = "idle"
    /\ call = NoCall
    /\ \E d \in UtilDates, p \in 1..PeriodsPerDay :
          LET bounds == datetime_from_period(d, p)
          IN  call' = [op |-> "period_bounds", date_str |-> d, period |-> p,
                       start_dt |-> bounds[1], end_dt |-> bounds[2],
                       ret |-> get_date_periods_between(bounds[1], bounds[2])]
    /\ UNCHANGED <<clock, ticks, job_vars>>
    /\ UNCHANGED <<cache_vars, svc_vars>>

CallGenerateTimeWindows ==
    /\ pc = "idle"
    /\ call = NoCall
    /\ \E s \in UtilStarts, len \in UtilLengths, w \in UtilWindowMinutes :
          call' = [op |-> "generate_time_windows",
                   start_dt |-> s, end_dt |-> s + len, window_minutes |-> w,
                   ret |-> generate_time_windows(s, s + len, w)]
    /\ UNCHANGED <<clock, ticks, job_vars>>
    /\ UNCHANGED <<cache_vars, svc_vars>>

CallCalculateWindowIntensity ==
    /\ pc = "idle"
    /\ call = NoCall
    /\ \E s \in UtilStarts, len \in UtilLengths, data \in UtilCarbonData :
          call' = [op |-> "_calculate_window_intensity",
                   start_time |-> s, end_time |-> s + len, carbon_data |-> data,
                   ret |-> _calculate_window_intensity(s, s + len, data)]
    /\ UNCHANGED <<clock, ticks, job_vars>>
    /\ UNCHANGED <<cache_vars, svc_vars>>

\* the caller of a utility is done with what it returned
\* get_settlement_period, and datetime_from_period on its result
CallGetSettlementPeriod ==
    /\ pc = "idle"
    /\ call = NoCall
    /\ \E dt \in UtilInstants :
          LET period == get_settlement_period(dt)
              bounds == datetime_from_period(DateOf(dt), period)
          IN  call' = [op |-> "get_settlement_period", dt |-> dt, ret |-> period,
                       bounds |-> bounds,
                       again |-> get_settlement_period(bounds[1])]
    /\ UNCHANGED <<clock, ticks, job_vars>>
    /\ UNCHANGED <<cache_vars, svc_vars>>

CallGetCarbonIndex ==
    /\ pc = "idle"
    /\ call = NoCall
    /\ \E intensity \in UtilIntensities :
          call' = [op |-> "_get_carbon_index", intensity |-> intensity,
                   ret |-> _get_carbon_index(intensity)]
    /\ UNCHANGED <<clock, ticks, job_vars>>
    /\ UNCHANGED <<cache_vars, svc_vars>>

CallGetForecastConfidence ==
    /\ pc = "idle"
    /\ call = NoCall
    /\ \E ahead \in UtilMinutesAhead :
          call' = [op |-> "_get_forecast_confidence",
                   start_time |-> clock + ahead, utcnow |-> clock,
                   ret |-> _get_forecast_confidence(clock + ahead, clock)]
    /\ UNCHANGED <<clock, ticks, job_vars>>
    /\ UNCHANGED <<cache_vars, svc_vars>>

CallReturn ==
    /\ call # NoCall
    /\ call' = NoCall
    /\ UNCHANGED <<clock, ticks, job_vars>>
    /\ UNCHANGED <<cache_vars, svc_vars>>

\* a request enters schedule_job
Submit ==
    /\ pc = "idle"
    /\ call = NoCall
    /\ \E r \in Requests :
          request' = [job_duration_minutes |-> r[1], deadline_utc |-> clock + r[2]]
    /\ arrival' = <<clock>>
    /\ pc' = "validate"
    /\ UNCHANGED <<clock, ticks, call, validate_now, now, time_windows,
                   carbon_data, data_freshness, window_intensities, outcome,
                   response>>
    /\ UNCHANGED <<cache_vars, svc_vars>>

\* schedule_job raises e
Fail(e) ==
    /\ outcome' = e
    /\ response' = NoResponse
    /\ pc' = "done"

\* schedule_job line 46
Validate ==
    /\ pc = "validate"
    /\ validate_now' = <<clock>>
    /\ LET checked == _validate_request(request, clock)
       IN  IF checked.raised # ""
           THEN Fail(checked.raised)
           ELSE pc' = "start" /\ UNCHANGED <<outcome, response>>
    /\ UNCHANGED <<clock, ticks, call, request, arrival, now, time_windows,
                   carbon_data, data_freshness, window_intensities>>
    /\ UNCHANGED <<cache_vars, svc_vars>>

\* schedule_job lines 48-67
Start ==
    /\ pc = "start"
    /\ now' = <<clock>>
    /\ LET windows == TimeWindowsFor(request, clock)
       IN  IF windows.raised # ""
           THEN Fail(windows.raised) /\ UNCHANGED time_windows
           ELSE /\ time_windows' = windows.value
                /\ pc' = "fetch"
                /\ UNCHANGED <<outcome, response>>
    /\ UNCHANGED <<clock, ticks, call, request, arrival, validate_now,
                   carbon_data, data_freshness, window_intensities>>
    /\ UNCHANGED <<cache_vars, svc_vars>>

\* the instants a forecast served at instant t can have been fetched at: t
\* itself, or an earlier instant since the service was started at which the
\* clock was read, if what was cached then has not expired
FetchInstants(t) ==
    UNION {{t - step * k :
               k \in {0} \cup {j \in 1..ticks : step * j * 60 <= CACHE_TTL}} :
           step \in TickSteps}

\* schedule_job line 70: the forecasts of every date the windows touch, the
\* provider answering each date in one of the ways it can, now or when the
\* forecasts now in the cache were fetched
Fetch ==
    /\ pc = "fetch"
    /\ \E resp \in [RangeDates(DateOf(time_windows[1][1]),
                               DateOf(time_windows[Len(time_windows)][2]))
                     -> ProviderResponses] :
          LET got == _get_carbon_data_for_windows(time_windows, resp)
          IN  IF got.raised # ""
              THEN Fail(got.raised) /\ UNCHANGED <<carbon_data, data_freshness>>
              ELSE /\ carbon_data' = got.value
                   /\ \E fetched \in FetchInstants(clock) :
                         data_freshness' = <<fetched>>
                   /\ pc' = "score"
                   /\ UNCHANGED <<outcome, response>>
    /\ UNCHANGED <<clock, ticks, call, request, arrival, validate_now, now,
                   time_windows, window_intensities>>
    /\ UNCHANGED <<cache_vars, svc_vars>>

\* schedule_job lines 72-109: score, rank, select
Score ==
    /\ pc = "score"
    /\ LET scores == ScoreWindows(time_windows, carbon_data)
       IN  IF \E i \in 1..Len(scores) : scores[i].raised # ""
           THEN Fail("NoViableTimeSlotError") /\ UNCHANGED window_intensities
           ELSE LET ranked == RankWindows(time_windows, scores)
                IN  /\ window_intensities' = ranked
                    /\ response' = JobScheduleResponse(ranked, carbon_data, clock)
                    /\ outcome' = "ok"
                    /\ pc' = "done"
    /\ UNCHANGED <<clock, ticks, call, request, arrival, validate_now, now,
                   time_windows, carbon_data, data_freshness>>
    /\ UNCHANGED <<cache_vars, svc_vars>>

\* the request is answered; the service waits for the next one
Finish ==
    /\ pc = "done"
    /\ pc' = "idle"
    /\ request' = None
    /\ arrival' = <<>>
    /\ validate_now' = <<>>
    /\ now' = <<>>
    /\ time_windows' = <<>>
    /\ carbon_data' = Empty
    /\ data_freshness' = <<>>
    /\ window_intensities' = <<>>
    /\ outcome' = "pending"
    /\ response' = NoResponse
    /\ UNCHANGED <<clock, ticks, call>>
    /\ UNCHANGED <<cache_vars, svc_vars>>

Next ==
    \/ Tick
    \/ CallGetDatePeriodsBetween
    \/ CallPeriodBounds
    \/ CallGenerateTimeWindows
    \/ CallCalculateWindowIntensity
    \/ CallGetSettlementPeriod
    \/ CallGetCarbonIndex
    \/ CallGetForecastConfidence
    \/ CallReturn
    \/ Submit
    \/ Validate
    \/ Start
    \/ Fetch
    \/ Score
    \/ Finish

Spec == Init /\ [][Next]_vars

-----------------------------------------------------------------------------
(* SimpleCache used by several threads *)

\* time passes
Elapse ==
    /\ time_ticks < MaxTimeTicks
    /\ \E step \in TimeSteps : time' = time + step
    /\ time_ticks' = time_ticks + 1
    /\ UNCHANGED <<_cache, _lock, threads, last_call, cache_calls>>
    /\ UNCHANGED <<sched_vars, svc_vars>>

\* a thread calls a method of the cache
BeginCall(t) ==
    /\ threads[t].pc = "idle"
    /\ cache_calls < MaxCacheCalls
    /\ \E c \in CacheCalls(t) : threads' = [threads EXCEPT ![t] = c]
    /\ cache_calls' = cache_calls + 1
    /\ UNCHANGED <<time, time_ticks, _cache, _lock, last_call>>
    /\ UNCHANGED <<sched_vars, svc_vars>>

\* RLock: free, or held by the thread itself
LockFree_always(t) == TRUE

LockFree(t) == _lock = NoOwner \/ _lock = t

\* with self._lock:
Acquire(t) ==
    /\ threads[t].pc = "acquire"
    /\ LockFree(t)
    /\ _lock' = t
    /\ threads' = [threads EXCEPT ![t].pc = "read"]
    /\ UNCHANGED <<time, time_ticks, _cache, last_call, cache_calls>>
    /\ UNCHANGED <<sched_vars, svc_vars>>

\* the method looks at the store and at the time
Read(t) ==
    /\ threads[t].pc = "read"
    /\ threads' = [threads EXCEPT ![t].pc = "write",
                                  ![t].at = Some(time),
                                  ![t].seen = _cache,
                                  ![t].plan = PlanFor(threads[t], _cache, time)]
    /\ UNCHANGED <<time, time_ticks, _cache, _lock, last_call, cache_calls>>
    /\ UNCHANGED <<sched_vars, svc_vars>>

\* the method changes the store and has its return value
Write(t) ==
    /\ threads[t].pc = "write"
    /\ LET done == ApplyPlan(_cache, threads[t].plan)
       IN  /\ _cache' = done.cache
           /\ threads' = [threads EXCEPT ![t].pc = "release", ![t].ret = done.ret]
    /\ UNCHANGED <<time, time_ticks, _lock, last_call, cache_calls>>
    /\ UNCHANGED <<sched_vars, svc_vars>>

\* leaving the with block, the method returns
Release(t) ==
    /\ threads[t].pc = "release"
    /\ _lock' = IF _lock = t THEN NoOwner ELSE _lock
    /\ last_call' = [op |-> threads[t].op, key |-> threads[t].key,
                     ret |-> threads[t].ret,
                     dels |-> threads[t].plan.dels]
    /\ threads' = [threads EXCEPT ![t] = IdleThread]
    /\ UNCHANGED <<time, time_ticks, _cache, cache_calls>>
    /\ UNCHANGED <<sched_vars, svc_vars>>

CacheInit ==
    /\ clock = At(0, 14, 7)
    /\ ScheduleIdle
    /\ CacheIdle
    /\ use_cache = TRUE
    /\ ServiceIdle

CacheNext ==
    \/ Elapse
    \/ \E t \in Threads : BeginCall(t)
    \/ \E t \in Threads : Acquire(t)
    \/ \E t \in Threads : Read(t)
    \/ \E t \in Threads : Write(t)
    \/ \E t \in Threads : Release(t)

CacheSpec == CacheInit /\ [][CacheNext]_vars

-----------------------------------------------------------------------------
(* The forecast provider client and the cache it goes through *)

\* between two calls time passes, a whole default TTL at once
ElapseLong ==
    /\ svc.pc = "idle"
    /\ time_ticks < MaxTimeTicks
    /\ \E step \in LongSteps : time' = time + step
    /\ time_ticks' = time_ticks + 1
    /\ UNCHANGED <<_cache, _lock, threads, last_call, cache_calls>>
    /\ UNCHANGED <<sched_vars, svc_vars>>

\* a caller uses CacheService.get
DirectGet ==
    /\ svc.pc = "idle"
    /\ svc_calls < MaxServiceCalls
    /\ \E fault \in BOOLEAN :
          LET got == CacheService_get(_cache, DirectKey, time, fault)
          IN  /\ _cache' = got.cache
              /\ svc' = [IdleService EXCEPT
                            !.pc = "done", !.op = "CacheService.get",
                            !.cache_key = DirectKey, !.at = Some(time),
                            !.seen = _cache,
                            !.events = <<Event("cache_get", DirectKey, fault)>>,
                            !.ret = got.ret]
    /\ svc_calls' = svc_calls + 1
    /\ UNCHANGED <<time, time_ticks, _lock, threads, last_call, cache_calls>>
    /\ UNCHANGED <<sched_vars, use_cache, tasks>>

\* a caller uses CacheService.set, with or without a ttl
DirectSet ==
    /\ svc.pc = "idle"
    /\ svc_calls < MaxServiceCalls
    /\ \E fault \in BOOLEAN, ttl \in DirectTtls :
          LET done == CacheService_set(_cache, DirectKey, DirectValue, ttl, time, fault)
          IN  /\ _cache' = done.cache
              /\ svc' = [IdleService EXCEPT
                            !.pc = "done", !.op = "CacheService.set",
                            !.cache_key = DirectKey, !.value = Some(DirectValue),
                            !.ttl_seconds = ttl, !.at = Some(time),
                            !.seen = _cache,
                            !.events = <<Event("cache_set", DirectKey, fault)>>,
                            !.ret = done.ret]
    /\ svc_calls' = svc_calls + 1
    /\ UNCHANGED <<time, time_ticks, _lock, threads, last_call, cache_calls>>
    /\ UNCHANGED <<sched_vars, use_cache, tasks>>

\* a caller asks for a period, a date or a range of dates
CallService ==
    /\ svc.pc = "idle"
    /\ svc_calls < MaxServiceCalls
    /\ \/ \E d \in ServiceDates, p \in ServicePeriods :
             svc' = ServiceCall("get_intensity_for_period", d, p, d, d)
       \/ \E d \in ServiceDates :
             svc' = ServiceCall("get_intensity_for_date", d, 0, d, d)
       \/ \E r \in ServiceRanges :
             LET dates == RangeDates(r[1], r[2])
             IN  svc' = [ServiceCall("get_intensity_for_date_range", Min(dates), 0,
                                     Min(dates), Max(dates))
                            EXCEPT !.value = Some(r)]
    /\ svc_calls' = svc_calls + 1
    /\ UNCHANGED <<cache_vars, sched_vars, use_cache, tasks>>

\* the call has the answer for the date (or period) it was fetching: a single
\* call returns it; a range call keeps it and goes on to the next date
Answered(this, answer) ==
    IF this.op # "get_intensity_for_date_range"
    THEN [this EXCEPT !.pc = "done", !.ret = Return(answer)]
    ELSE LET result == (this.date_str :> answer) @@ this.result
         IN  IF this.date_str + 1 <= this.last
             THEN [this EXCEPT
                      !.pc = "lookup", !.result = result,
                      !.date_str = this.date_str + 1,
                      !.cache_key = get_carbon_forecast_key(this.date_str + 1, <<>>)]
             ELSE [this EXCEPT !.pc = "done", !.result = result,
                               !.ret = Return(result)]

\* the events a call adds when it asks for the date it is at
Asking(this) ==
    IF this.op = "get_intensity_for_date_range"
    THEN <<Event("get_intensity_for_date", this.cache_key, FALSE)>>
    ELSE <<>>

\* get_intensity_for_period lines 64-86, get_intensity_for_date lines 161-182:
\* the cache is looked up; a hit is answered from it, on a miss the provider is
\* asked. The call and the store after the step.
LookupStep(this, use, cache, at, fault) ==
    LET looked == get_cache(use, cache, this.cache_key, at, fault)
        cached_data == looked.got.ret.value
        events == this.events \o Asking(this) \o
                  (IF looked.consulted
                   THEN <<Event("cache_get", this.cache_key, fault)>>
                   ELSE <<>>)
        found == [this EXCEPT !.events = events, !.cached_data = cached_data,
                              !.seen = cache]
    IN  [cache |-> looked.got.cache,
         task |->
            IF looked.got.ret.raised # ""
            THEN [found EXCEPT !.pc = "done", !.ret = looked.got.ret]
            ELSE IF cached_data # Absent
            THEN Answered(found,
                    IF this.op = "get_intensity_for_period"
                    THEN PeriodFromCache(this.date_str, this.period, cached_data[1])
                    ELSE DateFromCache(this.date_str, cached_data[1]))
            ELSE [found EXCEPT !.pc = "fetch"]]

\* what the call makes of the provider's answer
Made(this, resp, at) ==
    IF this.op = "get_intensity_for_period"
    THEN PeriodFromProvider(this.period, resp)
    ELSE DateFromProvider(this.date_str, resp, at)

\* get_intensity_for_period lines 88-144, get_intensity_for_date lines
\* 184-259: the provider has answered; a valid answer is cached and returned.
\* The call and the store after the step.
RespondStep(this, cache, at, resp, fault) ==
    LET made == Made(this, resp, at)
        asked == [this EXCEPT
                     !.events = @ \o <<Event("provider", this.cache_key, FALSE)>>,
                     !.response = (this.date_str :> resp) @@ @]
    IN  IF made.raised # ""
        THEN [cache |-> cache,
              task |-> [asked EXCEPT !.pc = "done", !.ret = made]]
        ELSE LET stored == CacheService_set(cache, this.cache_key,
                                            made.value.to_cache, Absent, at, fault)
                 wrote == [asked EXCEPT
                            !.events = @ \o <<Event("cache_set", this.cache_key, fault)>>]
             IN  [cache |-> stored.cache,
                  task |-> IF stored.ret.raised # ""
                           THEN [wrote EXCEPT !.pc = "done", !.ret = stored.ret]
                           ELSE Answered(wrote, made.value.to_return)]

Lookup ==
    /\ svc.pc = "lookup"
    /\ \E fault \in (IF use_cache THEN BOOLEAN ELSE {FALSE}) :
          LET step == LookupStep(svc, use_cache, _cache, time, fault)
          IN  /\ _cache' = step.cache
              /\ svc' = step.task
    /\ UNCHANGED <<time, time_ticks, _lock, threads, last_call, cache_calls>>
    /\ UNCHANGED <<sched_vars, use_cache, svc_calls, tasks>>

Respond ==
    /\ svc.pc = "fetch"
    /\ \E resp \in ServiceResponses, fault \in BOOLEAN :
          LET step == RespondStep(svc, _cache, time, resp, fault)
          IN  /\ Made(svc, resp, time).raised # "" => ~fault
              /\ _cache' = step.cache
              /\ svc' = step.task
    /\ UNCHANGED <<time, time_ticks, _lock, threads, last_call, cache_calls>>
    /\ UNCHANGED <<sched_vars, use_cache, svc_calls, tasks>>

\* the caller has the result
ServiceReturn ==
    /\ svc.pc = "done"
    /\ svc' = IdleService
    /\ UNCHANGED <<cache_vars, sched_vars, use_cache, svc_calls, tasks>>

CarbonInit ==
    /\ clock = At(0, 14, 7)
    /\ ScheduleIdle
    /\ CacheIdle
    /\ use_cache \in BOOLEAN
    /\ ServiceIdle

CarbonNext ==
    \/ ElapseLong
    \/ DirectGet
    \/ DirectSet
    \/ CallService
    \/ Lookup
    \/ Respond
    \/ ServiceReturn

CarbonSpec == CarbonInit /\ [][CarbonNext]_vars

-----------------------------------------------------------------------------
(* get_intensity_for_date called by several tasks of one event loop: a task  *)
(* is suspended while it awaits the provider's answer                        *)

RaceElapse ==
    /\ time_ticks < MaxTimeTicks
    /\ \E step \in TimeSteps : time' = time + step
    /\ time_ticks' = time_ticks + 1
    /\ UNCHANGED <<_cache, _lock, threads, last_call, cache_calls>>
    /\ UNCHANGED <<sched_vars, svc_vars>>

\* a task calls get_intensity_for_date
RaceCall(t) ==
    /\ tasks[t].pc = "idle"
    /\ svc_calls < MaxServiceCalls
    /\ \E d \in RaceDates :
          tasks' = [tasks EXCEPT
                      ![t] = ServiceCall("get_intensity_for_date", d, 0, d, d)]
    /\ svc_calls' = svc_calls + 1
    /\ UNCHANGED <<cache_vars, sched_vars, use_cache, svc>>

\* lines 161-182, up to the await of the provider's answer
RaceLookup(t) ==
    /\ tasks[t].pc = "lookup"
    /\ LET step == LookupStep(tasks[t], use_cache, _cache, time, FALSE)
       IN  /\ _cache' = step.cache
           /\ tasks' = [tasks EXCEPT ![t] = step.task]
    /\ UNCHANGED <<time, time_ticks, _lock, threads, last_call, cache_calls>>
    /\ UNCHANGED <<sched_vars, use_cache, svc, svc_calls>>

\* lines 184-259, from the provider's answer on
RaceRespond(t) ==
    /\ tasks[t].pc = "fetch"
    /\ \E resp \in RaceResponses :
          LET step == RespondStep(tasks[t], _cache, time, resp, FALSE)
          IN  /\ _cache' = step.cache
              /\ tasks' = [tasks EXCEPT ![t] = step.task]
    /\ UNCHANGED <<time, time_ticks, _lock, threads, last_call, cache_calls>>
    /\ UNCHANGED <<sched_vars, use_cache, svc, svc_calls>>

\* the caller of the task has the result
RaceReturn(t) ==
    /\ tasks[t].pc = "done"
    /\ tasks' = [tasks EXCEPT ![t] = IdleService]
    /\ UNCHANGED <<cache_vars, sched_vars, use_cache, svc, svc_calls>>

RaceInit ==
    /\ clock = At(0, 14, 7)
    /\ ScheduleIdle
    /\ CacheIdle
    /\ use_cache = TRUE
    /\ ServiceIdle

RaceNext ==
    \/ RaceElapse
    \/ \E t \in Tasks : RaceCall(t)
    \/ \E t \in Tasks : RaceLookup(t)
    \/ \E t \in Tasks : RaceRespond(t)
    \/ \E t \in Tasks : RaceReturn(t)

RaceSpec == RaceInit /\ [][RaceNext]_vars

-----------------------------------------------------------------------------
(* The specification's reading of the time model, the generator and the    *)
(* scorer, against which the claims are stated                              *)

\* period_of(instant) = floor(minutes_since_midnight / 30) + 1
PeriodOf(t) == ((t % MinutesPerDay) \div 30) + 1

\* how many 30-minute steps start, start+30min, ... lie strictly before end
StepCount(start_dt, end_dt) ==
    IF start_dt >= end_dt THEN 0 ELSE (end_dt - start_dt - 1) \div 30 + 1

StepInstants(start_dt, end_dt) ==
    {start_dt + 30 * k : k \in 0..(StepCount(start_dt, end_dt) - 1)}

\* the elements of a set of integers, ascending
Ascending(S) ==
    [i \in 1..Cardinality(S) |->
        CHOOSE x \in S : Cardinality({y \in S : y < x}) = i - 1]

\* date -> the periods of the steps on that date, ascending
OverlappedPeriods(start_dt, end_dt) ==
    LET steps == StepInstants(start_dt, end_dt)
    IN  [d \in {DateOf(t) : t \in steps} |->
            Ascending({PeriodOf(t) : t \in {u \in steps : DateOf(u) = d}})]

HasRecord(data, d, p) ==
    /\ d \in DOMAIN data
    /\ \E i \in 1..Len(data[d]) : data[d][i].period = p

RecordIntensity(data, d, p) ==
    data[d][Max({i \in 1..Len(data[d]) : data[d][i].period = p})].intensity

\* the number of overlapped periods that have a record, and their mean
OverlapScore(start_dt, end_dt, data) ==
    LET n == StepCount(start_dt, end_dt)
        at(k) == start_dt + 30 * (k - 1)
        known(k) == HasRecord(data, DateOf(at(k)), PeriodOf(at(k)))
        val == [k \in 1..n |->
                  IF known(k)
                  THEN RecordIntensity(data, DateOf(at(k)), PeriodOf(at(k)))
                  ELSE 0]
        count == Cardinality({k \in 1..n : known(k)})
    IN  [count |-> count,
         mean |-> IF count = 0 THEN 0 ELSE SumOver(val, 1, n) \div count]

\* the smallest multiple of 30 that is at least w, and at least 30
RoundedDuration(w) ==
    Min({m \in {30 * k : k \in 1..64} : m >= w})

\* the windows [s + 30k, s + 30k + D) that end by e, for k = 0, 1, ...
FittingWindows(s, e, w) ==
    LET D == RoundedDuration(w)
        ks == {k \in 0..((e - s) \div 30 + 1) : s + 30 * k + D <= e}
    IN  [i \in 1..Cardinality(ks) |-> <<s + 30 * (i - 1), s + 30 * (i - 1) + D>>]

\* the optimal slot followed by the alternative slots of the response
ResponseSlots ==
    <<[start_time |-> response.optimal_start_time,
       end_time |-> response.optimal_end_time,
       carbon_intensity |-> response.carbon_intensity,
       carbon_index |-> response.carbon_index]>> \o response.alternative_slots

-----------------------------------------------------------------------------
(* Claims *)

\* C1: get_date_periods_between(start, end) returns the empty mapping when
\* start >= end, and otherwise maps each civil date hit by the 30-minute steps
\* from start (strictly before end) to exactly the periods of those steps on
\* that date, ascending, without duplicates and without any other period,
\* also when the range ends at or crosses midnight.
C1_DatePeriodsExact ==
    call.op = "get_date_periods_between"
        => call.ret = OverlappedPeriods(call.start_dt, call.end_dt)

\* C2: for every date d and period p in 1..48, get_date_periods_between on
\* the bounds datetime_from_period(d, p) returns exactly {d: [p]}.
C2_SinglePeriodBounds ==
    call.op = "period_bounds"
        => call.ret = (call.date_str :> <<call.period>>)

\* C3: _calculate_window_intensity returns sum // count of the forecast
\* intensities of exactly the (date, period) pairs the window overlaps that
\* have a record, and of no other period, also for windows that end at or
\* cross midnight; every score schedule_job ranks is such a mean.
C3_WindowMeanExact ==
    /\ call.op = "_calculate_window_intensity"
        => LET e == OverlapScore(call.start_time, call.end_time, call.carbon_data)
           IN  e.count > 0 => call.ret.raised = "" /\ call.ret.value = e.mean
    /\ outcome = "ok"
        => \A i \in 1..Len(window_intensities) :
              LET w == window_intensities[i]
                  e == OverlapScore(w[1], w[2], carbon_data)
              IN  e.count > 0 => w[3] = e.mean

\* C4: a window that overlaps no period with forecast data is never scored:
\* _calculate_window_intensity raises NoViableTimeSlotError for it, and every
\* slot schedule_job returns was scored from at least one overlapped period.
C4_NoDataNeverScored ==
    /\ call.op = "_calculate_window_intensity"
        => (OverlapScore(call.start_time, call.end_time, call.carbon_data).count = 0
              => call.ret.raised = "NoViableTimeSlotError")
    /\ outcome = "ok"
        => \A i \in 1..Len(ResponseSlots) :
              OverlapScore(ResponseSlots[i].start_time, ResponseSlots[i].end_time,
                           carbon_data).count > 0

\* C5: generate_time_windows(now, deadline, duration) returns exactly the
\* windows [now + 30k, now + 30k + D) for every k >= 0 with
\* now + 30k + D <= deadline, D the rounded duration, in ascending start order,
\* and the empty list exactly when now + D > deadline.
C5_WindowsExact ==
    /\ call.op = "generate_time_windows"
        => /\ call.ret = FittingWindows(call.start_dt, call.end_dt,
                                        call.window_minutes)
           /\ call.ret = <<>>
                <=> call.start_dt + RoundedDuration(call.window_minutes)
                        > call.end_dt
    /\ time_windows # <<>>
        => time_windows = FittingWindows(now[1], request.deadline_utc,
                                         request.job_duration_minutes)

C5_Witness ==
    /\ call.op = "generate_time_windows"
    /\ call.start_dt = At(0, 10, 0)
    /\ call.end_dt = At(0, 12, 0)
    /\ call.window_minutes = 60
    /\ call.ret = << <<At(0, 10, 0), At(0, 11, 0)>>,
                     <<At(0, 10, 30), At(0, 11, 30)>>,
                     <<At(0, 11, 0), At(0, 12, 0)>> >>

\* C6: generate_time_windows rounds the duration up to the nearest multiple
\* of 30 minutes, at least 30 (45 -> 60, 20 -> 30, 60 -> 60); every window it
\* emits is that long and ends by the deadline.
C6_RoundedDuration ==
    /\ call.op = "generate_time_windows"
        => \A i \in 1..Len(call.ret) :
              /\ call.ret[i][2] - call.ret[i][1]
                    = RoundedDuration(call.window_minutes)
              /\ call.ret[i][2] <= call.end_dt
              /\ call.window_minutes = 45 => call.ret[i][2] - call.ret[i][1] = 60
              /\ call.window_minutes = 20 => call.ret[i][2] - call.ret[i][1] = 30
              /\ call.window_minutes = 60 => call.ret[i][2] - call.ret[i][1] = 60
    /\ \A i \in 1..Len(time_windows) :
          /\ time_windows[i][2] - time_windows[i][1]
                = RoundedDuration(request.job_duration_minutes)
          /\ time_windows[i][2] <= request.deadline_utc

C6_Witness ==
    /\ call.op = "generate_time_windows"
    /\ call.window_minutes = 61
    /\ Len(call.ret) > 0
    /\ call.ret[1][2] - call.ret[1][1] = 90

\* the score schedule_job gave the i-th generated window
ScoreOf(i) ==
    _calculate_window_intensity(time_windows[i][1], time_windows[i][2],
                                carbon_data).value

\* C7: on success the optimal window is a generated window whose average
\* intensity is <= that of every generated window; alternative_slots are the
\* next min(K, n-1) windows of the ranking (K = MAX_ALTERNATIVE_SLOTS, n the
\* number of generated windows), in ascending intensity order, and never
\* contain the optimal window.
C7_OptimalAndAlternatives ==
    outcome = "ok" =>
        LET n == Len(time_windows)
            alts == response.alternative_slots
            K == MAX_ALTERNATIVE_SLOTS
        IN  /\ \E i \in 1..n :
                  /\ time_windows[i] = <<response.optimal_start_time,
                                         response.optimal_end_time>>
                  /\ ScoreOf(i) = response.carbon_intensity
            /\ \A i \in 1..n : response.carbon_intensity <= ScoreOf(i)
            /\ Len(alts) = (IF n - 1 < K THEN n - 1 ELSE K)
            /\ Len(window_intensities) = n
            /\ \A i \in 1..n : \E j \in 1..n :
                  window_intensities[j] =
                      <<time_windows[i][1], time_windows[i][2], ScoreOf(i)>>
            /\ \A j \in 1..(n - 1) :
                  window_intensities[j][3] <= window_intensities[j + 1][3]
            /\ \A j \in 1..Len(ResponseSlots) :
                  /\ ResponseSlots[j].start_time = window_intensities[j][1]
                  /\ ResponseSlots[j].end_time = window_intensities[j][2]
                  /\ ResponseSlots[j].carbon_intensity = window_intensities[j][3]
            /\ \A j \in 1..Len(alts) :
                  alts[j].start_time # response.optimal_start_time

C7_Witness ==
    /\ outcome = "ok"
    /\ Len(time_windows) = 5
    /\ Len(response.alternative_slots) = 3
    /\ response.carbon_intensity < response.alternative_slots[1].carbon_intensity
    /\ response.optimal_start_time # time_windows[1][1]

\* C8: windows of equal average intensity are ranked by ascending start time:
\* of two generated windows with the same intensity, the one that starts
\* earlier comes first in the ranking that yields the optimal slot followed by
\* the alternative slots.
C8_TiesByStart ==
    outcome = "ok" =>
        /\ \A i, j \in 1..Len(window_intensities) :
              (/\ window_intensities[i][3] = window_intensities[j][3]
               /\ window_intensities[i][1] < window_intensities[j][1]) => i < j
        /\ \A i, j \in 1..Len(ResponseSlots) :
              (/\ ResponseSlots[i].carbon_intensity = ResponseSlots[j].carbon_intensity
               /\ ResponseSlots[i].start_time < ResponseSlots[j].start_time) => i < j
        /\ \A i \in 1..Len(time_windows) :
              ScoreOf(i) = response.carbon_intensity
                  => response.optimal_start_time <= time_windows[i][1]

C8_Witness ==
    /\ outcome = "ok"
    /\ \E i, j \in 1..Len(ResponseSlots) :
          /\ i < j
          /\ ResponseSlots[i].carbon_intensity = ResponseSlots[j].carbon_intensity
          /\ ResponseSlots[i].start_time < ResponseSlots[j].start_time

\* the request cannot be served at instant t
Unservable(t) ==
    \/ request.deadline_utc <= t
    \/ t + request.job_duration_minutes > request.deadline_utc

C10_NoViableSlot ==
    pc = "done" =>
        /\ (/\ now # <<>>
            /\ now[1] + request.job_duration_minutes <= request.deadline_utc
            /\ generate_time_windows(now[1], request.deadline_utc,
                                     request.job_duration_minutes) = <<>>)
           => outcome = "NoViableTimeSlotError" /\ response = NoResponse
        /\ (/\ carbon_data # Empty
            /\ \A i \in 1..Len(time_windows) :
                  OverlapScore(time_windows[i][1], time_windows[i][2],
                               carbon_data).count = 0)
           => outcome = "NoViableTimeSlotError" /\ response = NoResponse

-----------------------------------------------------------------------------
(* Claims about the cache *)

\* thread t's method has run and is about to leave the with block
Finished(t, op) == threads[t].pc = "release" /\ threads[t].op = op

\* the store held an entry for k whose expiry instant lies before instant at
Passed(store, k, at) ==
    /\ k \in DOMAIN store
    /\ store[k].expiry # Absent
    /\ store[k].expiry[1] < at

PassedKeys(store, at) == {k \in DOMAIN store : Passed(store, k, at)}

\* set stores (v, now + ttl); a get before the expiry instant returns v; a get
\* after it returns absent
SetThenGet ==
    \A t \in Threads :
        LET th == threads[t]
        IN  /\ Finished(t, "set") =>
                /\ th.ret = Return(TRUE)
                /\ th.key \in DOMAIN _cache
                /\ _cache[th.key].value = th.value
                /\ _cache[th.key].expiry =
                      (IF th.ttl_seconds = Absent THEN Absent
                       ELSE Some(th.at[1] + th.ttl_seconds[1]))
            /\ Finished(t, "get") /\ th.key \in DOMAIN th.seen =>
                /\ (\/ th.seen[th.key].expiry = Absent
                    \/ th.at[1] < th.seen[th.key].expiry[1])
                   => th.ret = Return(Some(th.seen[th.key].value))
                /\ Passed(th.seen, th.key, th.at[1]) => th.ret = Return(Absent)

\* the last call to finish was a get that found its entry expired
AfterExpiredGet == last_call.op = "get" /\ last_call.dels # {}

\* C11 as stated: after set(key, v, ttl) a get(key) before the expiry instant
\* returns v; once the TTL has elapsed get(key) returns absent, and a
\* clear_expired() called after that get reports 1 removed (that entry, on
\* top of any other expired entry).
C11_ClearAfterGetReportsOne ==
    /\ SetThenGet
    /\ \A t \in Threads :
          Finished(t, "clear_expired") /\ AfterExpiredGet
              => threads[t].ret.value
                    = 1 + Cardinality(PassedKeys(threads[t].seen, threads[t].at[1])
                                      \ {last_call.key})

\* C11 amended: after set(key, v, ttl) a get(key) before the expiry instant
\* returns v; once the expiry instant has passed get(key) returns absent and
\* removes the entry, so a clear_expired() called after that get does not
\* count it: it reports the other expired entries only, 0 if there are none.
C11_ClearAfterGetSkipsEntry ==
    /\ SetThenGet
    /\ \A t \in Threads :
          Finished(t, "clear_expired") /\ AfterExpiredGet
              => /\ last_call.key \notin DOMAIN threads[t].seen
                 /\ threads[t].ret.value
                       = Cardinality(PassedKeys(threads[t].seen, threads[t].at[1])
                                     \ {last_call.key})

C11_Witness ==
    \E t \in Threads :
        /\ Finished(t, "clear_expired")
        /\ AfterExpiredGet
        /\ last_call.ret = Return(Absent)
        /\ threads[t].ret = Return(0)

\* C12: get(key) never returns the value of an entry whose expiry instant has
\* passed: the entry is reported absent and is removed from the store by that
\* same get, and the entries of all other keys are left unchanged.
C12_ExpiredEvictedOnGet ==
    \A t \in Threads :
        LET th == threads[t]
        IN  Finished(t, "get") /\ Passed(th.seen, th.key, th.at[1])
                => /\ th.ret = Return(Absent)
                   /\ th.key \notin DOMAIN _cache
                   /\ DOMAIN _cache = DOMAIN th.seen \ {th.key}
                   /\ \A k \in DOMAIN _cache : _cache[k] = th.seen[k]

C12_Witness ==
    \E t \in Threads :
        /\ Finished(t, "get")
        /\ Passed(threads[t].seen, threads[t].key, threads[t].at[1])
        /\ DOMAIN _cache # {}
        /\ threads[t].ret = Return(Absent)

\* what the call of thread t returns and leaves in the store when it runs
\* alone on the store it saw
Alone(t) ==
    ApplyPlan(threads[t].seen,
              PlanFor(threads[t], threads[t].seen, threads[t].at[1]))

\* every finished call returned and left behind what it does when run alone,
\* and no two threads are inside a method at once
EachCallAtomic ==
    /\ Cardinality({t \in Threads : threads[t].pc \in {"read", "write", "release"}}) <= 1
    /\ \A t \in Threads :
          threads[t].pc = "release"
              => /\ threads[t].ret.raised = ""
                 /\ threads[t].ret.value = Alone(t).ret.value
                 /\ _cache = Alone(t).cache

\* an entry appears or changes in the store only as the (value, expiry) pair
\* of one set call
PairsWrittenWhole ==
    \A k \in DOMAIN _cache' :
        (k \notin DOMAIN _cache \/ _cache'[k] # _cache[k])
            => \E t \in Threads :
                  /\ threads[t].pc = "write"
                  /\ threads[t].op = "set"
                  /\ threads[t].key = k
                  /\ _cache'[k].value = threads[t].value
                  /\ _cache'[k].expiry =
                        (IF threads[t].ttl_seconds = Absent THEN Absent
                         ELSE Some(threads[t].at[1] + threads[t].ttl_seconds[1]))

\* C14: under any interleaving of get, set, delete, clear_expired and
\* clear_all calls from several threads on one SimpleCache every call takes
\* effect atomically: each returns and leaves in the store what it does in the
\* sequential order in which the calls took the lock, and no entry a get can
\* observe pairs one set's value with another set's expiry.
C14_CallsAtomic == []EachCallAtomic /\ [][PairsWrittenWhole]_vars

C14_Witness ==
    /\ threads[1].pc = "release"
    /\ threads[1].op = "get"
    /\ threads[1].ret = Return(Some("v2"))
    /\ threads[2].pc = "acquire"
    /\ threads[2].op = "delete"
    /\ threads[2].key = threads[1].key

\* C15: delete returns true iff an entry for the key was stored and removes
\* that entry only; clear_expired removes exactly the entries whose expiry has
\* passed, leaves the others unchanged and returns how many it removed;
\* clear_all returns how many entries were stored and leaves the store empty,
\* so that a get after it returns absent.
C15_RemovalCounts ==
    \A t \in Threads :
        LET th == threads[t]
            removed == DOMAIN th.seen \ DOMAIN _cache
            kept_unchanged ==
                /\ DOMAIN _cache \subseteq DOMAIN th.seen
                /\ \A k \in DOMAIN _cache : _cache[k] = th.seen[k]
        IN  /\ Finished(t, "delete") =>
                /\ th.ret.value = (th.key \in DOMAIN th.seen)
                /\ removed = (IF th.ret.value THEN {th.key} ELSE {})
                /\ kept_unchanged
            /\ Finished(t, "clear_expired") =>
                /\ removed = PassedKeys(th.seen, th.at[1])
                /\ th.ret.value = Cardinality(removed)
                /\ kept_unchanged
            /\ Finished(t, "clear_all") =>
                /\ _cache = Empty
                /\ th.ret.value = Cardinality(DOMAIN th.seen)
            /\ Finished(t, "get") /\ last_call.op = "clear_all" =>
                th.ret = Return(Absent)

C15_Witness ==
    \E t \in Threads :
        /\ Finished(t, "clear_expired")
        /\ threads[t].ret = Return(1)
        /\ \E k \in DOMAIN _cache :
              /\ _cache[k].expiry # Absent
              /\ _cache[k].expiry[1] = threads[t].at[1]

\* the (date, period) pairs that the generated windows overlap
ConsultedPairs ==
    UNION {{<<DateOf(t), PeriodOf(t)>> :
               t \in StepInstants(time_windows[i][1], time_windows[i][2])} :
           i \in DOMAIN time_windows}

\* C20: scheduling_metadata.periods_analyzed is the number of distinct
\* (date, period) pairs consulted across all scored windows; forecast periods
\* that no window overlaps are not counted.
C20_PeriodsAnalyzedConsulted ==
    outcome = "ok" =>
        response.scheduling_metadata.periods_analyzed = Cardinality(ConsultedPairs)

\* the category the bands of the specification give an intensity
IndexBand(i) ==
    CHOOSE c \in {"very low", "low", "moderate", "high", "very high"} :
        \/ c = "very low" /\ i <= 100
        \/ c = "low" /\ i \in 101..150
        \/ c = "moderate" /\ i \in 151..250
        \/ c = "high" /\ i \in 251..350
        \/ c = "very high" /\ i >= 351

\* the categories, in ascending order
IndexRank(c) ==
    CASE c = "very low" -> 1
      [] c = "low" -> 2
      [] c = "moderate" -> 3
      [] c = "high" -> 4
      [] c = "very high" -> 5

\* C22: _get_carbon_index maps every intensity to exactly one category:
\* <= 100 very low, 101..150 low, 151..250 moderate, 251..350 high, >= 351
\* very high; the mapping is monotone non-decreasing; and the carbon_index of
\* every returned slot is this mapping applied to the slot's carbon_intensity.
C22_CarbonIndexBands ==
    /\ call.op = "_get_carbon_index" =>
          /\ call.ret = IndexBand(call.intensity)
          /\ \A j \in UtilIntensities :
                j <= call.intensity =>
                   IndexRank(_get_carbon_index(j)) <= IndexRank(call.ret)
    /\ outcome = "ok" =>
          \A i \in 1..Len(ResponseSlots) :
             ResponseSlots[i].carbon_index = IndexBand(ResponseSlots[i].carbon_intensity)

\* intensity 351 is very high
C22_Witness ==
    /\ call.op = "_get_carbon_index"
    /\ call.intensity = 351
    /\ call.ret = "very high"

\* the label the thresholds of the specification give a start that many
\* minutes ahead
ConfidenceLabel(minutes_ahead) ==
    IF minutes_ahead <= 12 * 60 THEN "high"
    ELSE IF minutes_ahead > 12 * 60 /\ minutes_ahead <= 24 * 60 THEN "medium"
    ELSE "low"

\* C23: forecast_confidence is "high" when the optimal window starts at most
\* 12 hours after now, "medium" when more than 12 and at most 24 hours after,
\* "low" when more than 24 hours after; now is the clock as
\* _get_forecast_confidence reads it.
C23_ConfidenceThresholds ==
    /\ call.op = "_get_forecast_confidence" =>
          call.ret = ConfidenceLabel(call.start_time - call.utcnow)
    /\ outcome = "ok" =>
          \E utcnow \in now[1]..clock :
             response.scheduling_metadata.forecast_confidence =
                ConfidenceLabel(response.optimal_start_time - utcnow)

\* a start exactly 24 hours ahead is still medium
C23_Witness ==
    /\ call.op = "_get_forecast_confidence"
    /\ call.start_time - call.utcnow = 24 * 60
    /\ call.ret = "medium"

\* C24: get_settlement_period(t) is in 1..48 and is
\* floor(minutes since midnight / 30) + 1; get_settlement_period of the start
\* that datetime_from_period gives for t's date and period is that period
\* again; and that start is the latest 30-minute boundary of the date that is
\* <= t.
C24_SettlementRoundTrip ==
    call.op = "get_settlement_period" =>
        LET t == call.dt
            midnight == DateOf(t) * MinutesPerDay
            start == call.bounds[1]
        IN  /\ call.ret \in 1..48
            /\ call.ret = PeriodOf(t)
            /\ 30 * (call.ret - 1) <= t - midnight
            /\ t - midnight < 30 * call.ret
            /\ call.again = call.ret
            /\ DateOf(start) = DateOf(t)
            /\ (start - midnight) % 30 = 0
            /\ start <= t
            /\ t < start + 30

\* 23:59 of day 1 is in period 48, which starts at 23:30
C24_Witness ==
    /\ call.op = "get_settlement_period"
    /\ call.dt = At(1, 23, 59)
    /\ call.ret = 48
    /\ call.bounds[1] = At(1, 23, 30)
    /\ call.again = 48

\* schedule_job's checks pass for the request at instant t
ChecksPass(t) ==
    /\ request.job_duration_minutes >= 30
    /\ request.job_duration_minutes <= 1440
    /\ request.deadline_utc > t
    /\ t + request.job_duration_minutes <= request.deadline_utc

\* C27: whenever schedule_job's checks pass (30 <= duration <= 1440,
\* deadline > now, now + duration <= deadline), generate_time_windows returns
\* at least one window, so schedule_job never fails with the 'no windows'
\* NoViableTimeSlotError after validation has succeeded.
C27_ValidatedJobHasWindow ==
    (/\ pc \in {"fetch", "score", "done"}
     /\ now # <<>>
     /\ ChecksPass(validate_now[1])
     /\ ChecksPass(now[1])) =>
        /\ generate_time_windows(now[1], request.deadline_utc,
                                 request.job_duration_minutes) # <<>>
        /\ time_windows # <<>>

\* the generated windows that overlap no period with forecast data
WindowsWithoutData ==
    {i \in DOMAIN time_windows :
        OverlapScore(time_windows[i][1], time_windows[i][2], carbon_data).count = 0}

\* C26: once the forecasts are fetched, schedule_job fails with
\* NoViableTimeSlotError whenever some generated window has no forecast data,
\* even when other windows can be scored; a result is returned only if every
\* generated window was scored.
C26_UnscorableWindowAborts ==
    (pc = "done" /\ carbon_data # Empty) =>
        /\ WindowsWithoutData # {} =>
              outcome = "NoViableTimeSlotError" /\ response = NoResponse
        /\ outcome = "ok" =>
              /\ WindowsWithoutData = {}
              /\ Len(window_intensities) = Len(time_windows)

\* minutes from the fetch of the forecasts used to the request's now
DataAge ==
    IF now[1] > data_freshness[1] THEN now[1] - data_freshness[1] ELSE 0

\* C21: in every result of schedule_job, cached_data_age_minutes is the age
\* of the forecast data used: the minutes from its freshness timestamp to the
\* request's now, so data fetched for this request and data cached some
\* minutes earlier give different ages.
C21_AgeFromFreshness ==
    outcome = "ok" =>
        response.scheduling_metadata.cached_data_age_minutes = DataAge

-----------------------------------------------------------------------------
(* The forecast provider client and CacheService, under CarbonSpec *)

\* the call of method op has its result and the caller has not taken it yet
Done(op) == svc.pc = "done" /\ svc.op = op

\* the events of the call in flight that are of kind ev
EventsOf(ev) == {i \in DOMAIN svc.events : svc.events[i].ev = ev}

\* the store raised during the call in flight
StoreFailed == \E i \in DOMAIN svc.events : svc.events[i].fault

\* C13: CacheService.set without a ttl stores insertion time + CACHE_TTL
\* (1800 s) as the expiry; no entry written through CacheService.set is
\* stored without an expiry; and a get after the expiry has passed finds the
\* entry absent.
C13_DefaultTtl ==
    /\ \A k \in DOMAIN _cache : _cache[k].expiry # Absent
    /\ (Done("CacheService.set") /\ ~StoreFailed) =>
          /\ svc.cache_key \in DOMAIN _cache
          /\ _cache[svc.cache_key].expiry =
                Some(svc.at[1] + (IF svc.ttl_seconds = Absent THEN 1800
                                  ELSE svc.ttl_seconds[1]))
    /\ (/\ Done("CacheService.get")
        /\ svc.cache_key \in DOMAIN svc.seen
        /\ svc.seen[svc.cache_key].expiry # Absent
        /\ svc.seen[svc.cache_key].expiry[1] < svc.at[1]) =>
          /\ svc.ret.raised = ""
          /\ svc.ret.value = Absent

\* an entry stored with the default TTL at time 0 is looked up after the TTL
\* has elapsed and is absent
C13_Witness ==
    /\ Done("CacheService.get")
    /\ ~StoreFailed
    /\ svc.cache_key \in DOMAIN svc.seen
    /\ svc.seen[svc.cache_key].expiry = Some(CACHE_TTL)
    /\ svc.at[1] > CACHE_TTL
    /\ svc.ret.value = Absent

\* what the provider path alone makes of the answer the call got
ProviderOutcome ==
    LET resp == svc.response[svc.date_str]
        made == IF svc.op = "get_intensity_for_period"
                THEN PeriodFromProvider(svc.period, resp)
                ELSE DateFromProvider(svc.date_str, resp, time)
    IN  IF made.raised # "" THEN made ELSE Return(made.value.to_return)

\* C16: when the underlying store raises, CacheService.get returns absent and
\* CacheService.set returns false, neither raises, and
\* get_intensity_for_period / get_intensity_for_date then ask the provider and
\* return what the provider path yields.
C16_CacheFaultNotFatal ==
    /\ (Done("CacheService.get") /\ StoreFailed) =>
          svc.ret.raised = "" /\ svc.ret.value = Absent
    /\ (Done("CacheService.set") /\ StoreFailed) =>
          svc.ret.raised = "" /\ svc.ret.value = FALSE
    /\ \A op \in {"get_intensity_for_period", "get_intensity_for_date"} :
          (Done(op) /\ StoreFailed) =>
             /\ Cardinality(EventsOf("provider")) = 1
             /\ svc.ret.raised = ProviderOutcome.raised
             /\ svc.ret.raised = "" => svc.ret.value = ProviderOutcome.value

\* the store raised on the lookup and on the write of one
\* get_intensity_for_date call, which returned the provider's forecast
C16_Witness ==
    /\ Done("get_intensity_for_date")
    /\ \A i \in EventsOf("cache_get") \cup EventsOf("cache_set") :
          svc.events[i].fault
    /\ EventsOf("cache_get") # {}
    /\ EventsOf("cache_set") # {}
    /\ svc.ret.raised = ""
    /\ svc.ret.value.forecast_periods = ForecastPeriods(SparseDay)

\* the lookup of the call in flight found a value
CacheHit == svc.cached_data # Absent

\* the provider's answer to the call in flight was valid
ProviderValid ==
    /\ svc.date_str \in DOMAIN svc.response
    /\ ProviderOutcome.raised = ""

\* C17 (as stated): get_intensity_for_period consults the cache exactly once;
\* on a hit it returns the cached values without calling the provider or
\* writing the cache; on a miss it calls the provider once and then writes the
\* cache exactly once under the same key.
C17_OnceEach ==
    Done("get_intensity_for_period") =>
        /\ Cardinality(EventsOf("cache_get")) = 1
        /\ CacheHit =>
              /\ EventsOf("provider") = {}
              /\ EventsOf("cache_set") = {}
              /\ svc.ret.raised = ""
              /\ svc.ret.value =
                    PeriodFromCache(svc.date_str, svc.period, svc.cached_data[1])
        /\ ~CacheHit =>
              /\ Cardinality(EventsOf("provider")) = 1
              /\ Cardinality(EventsOf("cache_set")) = 1
              /\ \A i \in EventsOf("cache_set") \cup EventsOf("cache_get") :
                    svc.events[i].key = svc.cache_key

\* C17 (amended): with use_cache on, the cache is consulted exactly once, and
\* not at all with use_cache off; on a hit the cached values are returned
\* without a provider call or a cache write; on a miss the provider is called
\* once and the cache is written exactly once, under the key looked up, when
\* the provider's answer is valid, and not written when it is not.
C17_OnceEachWhenValid ==
    Done("get_intensity_for_period") =>
        /\ Cardinality(EventsOf("cache_get")) = (IF use_cache THEN 1 ELSE 0)
        /\ CacheHit =>
              /\ EventsOf("provider") = {}
              /\ EventsOf("cache_set") = {}
              /\ svc.ret.raised = ""
              /\ svc.ret.value =
                    PeriodFromCache(svc.date_str, svc.period, svc.cached_data[1])
        /\ ~CacheHit =>
              /\ Cardinality(EventsOf("provider")) = 1
              /\ Cardinality(EventsOf("cache_set")) =
                    (IF ProviderValid THEN 1 ELSE 0)
              /\ \A i \in EventsOf("cache_set") \cup EventsOf("cache_get") :
                    svc.events[i].key = svc.cache_key
              /\ \A i \in EventsOf("cache_set"), j \in EventsOf("provider") : j < i

\* a get_intensity_for_period call was answered from the cache
C17_Witness ==
    /\ Done("get_intensity_for_period")
    /\ use_cache
    /\ CacheHit
    /\ svc.ret.value.intensity_forecast = svc.cached_data[1].forecast

\* the dates the range call in flight has asked a forecast for, in order
RequestedDates ==
    LET asked == EventsOf("get_intensity_for_date")
    IN  [n \in 1..Cardinality(asked) |->
            svc.events[CHOOSE i \in asked :
                          Cardinality({j \in asked : j <= i}) = n].key.date]

\* C18: get_intensity_for_date_range asks for one forecast per date from
\* start through end, in order and each once (2 requests for two consecutive
\* dates), never for a date later than start + MAX_FORECAST_DAYS (2), and the
\* mapping it returns is keyed by exactly the dates asked for.
C18_RangeOnePerDate ==
    svc.op = "get_intensity_for_date_range" =>
        LET start == svc.value[1][1]
            end == svc.value[1][2]
            upto == IF end - start > 2 THEN start + 2 ELSE end
            dates == RequestedDates
        IN  /\ \A n \in DOMAIN dates :
                  dates[n] = start + n - 1 /\ dates[n] <= start + 2
            /\ (svc.pc = "done" /\ svc.ret.raised = "") =>
                  /\ Len(dates) = upto - start + 1
                  /\ (end = start + 1) => Len(dates) = 2
                  /\ DOMAIN svc.ret.value = start..upto
                  /\ \A d \in start..upto : svc.ret.value[d].date = d

\* a range of four dates was asked for and three forecasts came back
C18_Witness ==
    /\ Done("get_intensity_for_date_range")
    /\ svc.value[1][2] - svc.value[1][1] > MAX_FORECAST_DAYS
    /\ svc.ret.raised = ""
    /\ Len(RequestedDates) = MAX_FORECAST_DAYS + 1

\* C19: every forecast get_intensity_for_date returns has its
\* forecast_periods ascending by period with each period at most once, so at
\* most 48 records, with periods in 1..48.
C19_ForecastAscendingUnique ==
    (Done("get_intensity_for_date") /\ svc.ret.raised = "") =>
        LET periods == svc.ret.value.forecast_periods
        IN  /\ \A i \in 1..(Len(periods) - 1) :
                  periods[i].period < periods[i + 1].period
            /\ Len(periods) <= PeriodsPerDay
            /\ \A i \in DOMAIN periods : periods[i].period \in 1..PeriodsPerDay

\* the provider was asked for the date (or period) the call is at
ProviderAsked == svc.date_str \in DOMAIN svc.response

\* C25: a timeout or connection error surfaces as CarbonAPIUnavailableError,
\* and a non-200 status, an error-carrying payload or a missing or empty data
\* list as CarbonAPIResponseError; no forecast, empty forecast or intensity is
\* returned for any of them.
C25_FailureKindsDistinct ==
    (svc.pc = "done" /\ ProviderAsked) =>
        LET resp == svc.response[svc.date_str]
        IN  /\ resp.kind \in {"timeout", "connect_error"} =>
                  svc.ret.raised = "CarbonAPIUnavailableError"
            /\ (\/ resp.kind \in {"status_500", "error_payload", "missing_data"}
                \/ resp.kind = "ok" /\ resp.data = <<>>) =>
                  svc.ret.raised = "CarbonAPIResponseError"

\* a get_intensity_for_date call that could not connect raised
\* CarbonAPIUnavailableError
C25_Witness ==
    /\ Done("get_intensity_for_date")
    /\ ProviderAsked
    /\ svc.response[svc.date_str].kind = "connect_error"
    /\ svc.ret.raised = "CarbonAPIUnavailableError"

\* the lookup of the call in flight found an entry under its key
EntryFound == svc.cache_key \in DOMAIN svc.seen

\* that entry's expiry instant had passed
EntryExpired == svc.seen[svc.cache_key].expiry[1] < time

ProviderFailed == ProviderAsked /\ ProviderOutcome.raised # ""

\* C29 (as stated): when the provider call fails, get_intensity_for_date and
\* get_intensity_for_period write nothing to the cache, the cache after the
\* call equals the cache before it, and the key is left without an entry for
\* the next lookup.
C29_FailureLeavesCache ==
    \A op \in {"get_intensity_for_period", "get_intensity_for_date"} :
        (Done(op) /\ ProviderFailed) =>
            /\ EventsOf("cache_set") = {}
            /\ _cache = svc.seen
            /\ (use_cache /\ ~StoreFailed) => svc.cache_key \notin DOMAIN _cache

\* the store as the lookup of the call in flight leaves it: an entry of the
\* key whose expiry has passed is removed
AfterLookup ==
    LET evicted == IF /\ use_cache
                      /\ ~StoreFailed
                      /\ EntryFound
                      /\ EntryExpired
                   THEN {svc.cache_key} ELSE {}
    IN  [k \in DOMAIN svc.seen \ evicted |-> svc.seen[k]]

\* C29 (amended): when the provider call fails nothing is written to the
\* cache: the cache after the call equals the cache before it, except that the
\* lookup has removed the entry of the key if its expiry had passed; the key
\* is left without an entry for the next lookup.
C29_FailureWritesNothing ==
    \A op \in {"get_intensity_for_period", "get_intensity_for_date"} :
        (Done(op) /\ ProviderFailed) =>
            /\ EventsOf("cache_set") = {}
            /\ _cache = AfterLookup
            /\ (use_cache /\ ~StoreFailed) => svc.cache_key \notin DOMAIN _cache

\* a call found an expired entry under its key, the provider failed, and the
\* entry is gone
C29_Witness ==
    /\ Done("get_intensity_for_period")
    /\ ProviderFailed
    /\ use_cache
    /\ ~StoreFailed
    /\ EntryFound
    /\ EntryExpired
    /\ DOMAIN _cache = DOMAIN svc.seen \ {svc.cache_key}

-----------------------------------------------------------------------------
(* Concurrent get_intensity_for_date calls, under RaceSpec *)

\* task t has its forecast, and got it from the provider
Fetched(t) ==
    /\ tasks[t].pc = "done"
    /\ tasks[t].ret.raised = ""
    /\ \E i \in DOMAIN tasks[t].events : tasks[t].events[i].ev = "provider"

\* the cache entry that holds the forecast returned to a task
EntryOf(this) ==
    [value |-> [periods |-> this.ret.value.forecast_periods,
                freshness |-> this.ret.value.data_freshness],
     expiry |-> Some(this.ret.value.data_freshness + 1800)]

\* once both tasks have fetched, the cache holds one entry, that of the date,
\* and it is the entry of one of the two fetches, whole
OneWholeEntry ==
    (\A t \in Tasks : Fetched(t)) =>
        /\ DOMAIN _cache = {tasks[1].cache_key}
        /\ \E t \in Tasks : _cache[tasks[t].cache_key] = EntryOf(tasks[t])

\* every set overwrites the entry with that of its own fetch, so the entry
\* left is that of the later set
LaterSetOverwrites ==
    \A t \in Tasks :
        (/\ tasks[t].pc = "fetch"
         /\ tasks'[t].pc = "done"
         /\ tasks'[t].ret.raised = "") =>
            /\ tasks'[t].cache_key \in DOMAIN _cache'
            /\ _cache'[tasks'[t].cache_key] = EntryOf(tasks'[t])

\* C30: two concurrent get_intensity_for_date calls for the same uncached date
\* can both miss and both call the provider; in every interleaving, once both
\* have their forecast the cache holds exactly one entry for the date, the one
\* written by the later set, with periods and freshness of one and the same
\* fetch.
C30_LaterSetWins == []OneWholeEntry /\ [][LaterSetOverwrites]_vars

\* both tasks missed and fetched different forecasts at different instants;
\* the cache holds the entry of task 2 and nothing of task 1's
C30_Witness ==
    /\ \A t \in Tasks : Fetched(t) /\ tasks[t].cached_data = Absent
    /\ tasks[1].ret.value.forecast_periods # tasks[2].ret.value.forecast_periods
    /\ tasks[1].ret.value.data_freshness # tasks[2].ret.value.data_freshness
    /\ _cache[tasks[2].cache_key] = EntryOf(tasks[2])

=============================================================================
